---- MODULE Spec2Model ----
(***************************************************************************)
(* Model of the Elsewedy product chatbot: the Streamlit front end          *)
(* (src/src/chatbot_app.py), the pipeline set-up (src/src/rag_chain.py)    *)
(* and the Chroma vector-store manager (src/src/vector_db_manager.py).     *)
(*                                                                         *)
(* Text is modelled as a sequence of tokens, so that joining, prompt       *)
(* formatting and accumulation of streamed fragments are concatenations.   *)
(* The external libraries (HuggingFace embeddings, Chroma, Ollama) are     *)
(* the environment: each call either succeeds or raises, and a write of    *)
(* several records that raises may have persisted a prefix of them.        *)
(***************************************************************************)
EXTENDS Integers, Sequences, FiniteSets, TLC

----------------------------------------------------------------------------
(* Bounds of the model *)

\* most chunks the corpus directory yields
MaxChunks == 1
\* most runs of initialize_rag_chain over all processes
MaxInits == 2
\* most question/answer turns kept in one session's history
MaxTurns == 2
\* the number of fragments the model endpoint streams for a whole answer
MaxFrags == 1
\* most documents handed to a direct get_or_create_vector_store call
MaxDocs == 2
\* most records the persisted collection may hold before a direct call
MaxRecords == 2
\* most files under the corpus directory
MaxFiles == 2

(* Program constants *)

\* config.py: TOP_K_RETRIEVAL
TOP_K_RETRIEVAL == 5

----------------------------------------------------------------------------
(* Values *)

\* chunk texts the corpus can yield, in the order the splitter emits them
ChunkPool == <<"c1", "c2", "c3">>

\* a record persisted by an earlier deployment, not part of the corpus
OldRecord == "old"

\* the questions a user can type
Questions == {"q1", "q2"}

\* st.session_state without the key "messages"
Absent == <<"absent">>

\* no call made yet
NoCall == [made |-> FALSE]

Prefix(s, k) == SubSeq(s, 1, k)

\* the corpora: the first n chunks of the pool, n = 0..MaxChunks
Corpora == {Prefix(ChunkPool, n) : n \in 0..MaxChunks}

\* the document lists of a direct get_or_create_vector_store call
DocumentLists == {Prefix(ChunkPool, n) : n \in 0..MaxDocs}

\* what the persist directory may hold before the first start
InitialStores == {<<>>, <<OldRecord>>}

----------------------------------------------------------------------------
(* State *)

VARIABLES
    corpus,      \* the chunks get_processed_documents() yields
    collection,  \* the records of the persisted Chroma collection, in insertion order
    rag_chain,   \* the st.cache_resource entry of setup_rag_chain: "empty", "ready", "failed"
    messages,    \* st.session_state.messages of the browser session, or Absent
    call,        \* the rag_chain.stream(prompt) call of the latest script run, and its outcome
    requests,    \* the prompts this process has sent to the model endpoint, with their questions
    runs,        \* initialize_rag_chain runs in the current process
    log,         \* console: how often "Initializing RAG chain..." was printed, and how often
                 \* the vector-store step then returned from its try block
    vs,          \* the last direct get_or_create_vector_store invocation: arguments, store before, result
    directory,   \* the files os.walk finds under the corpus directory, in walk order
    loaded,      \* the outcome of load_documents(directory), or NoCall
    steps        \* the set-up steps the latest initialize_rag_chain run of this process entered

vars == <<corpus, collection, rag_chain, messages, call, requests, runs, log, vs,
          directory, loaded, steps>>

\* the state of the document loader
loadVars == <<directory, loaded>>

----------------------------------------------------------------------------
(* src/src/data_processor.py *)

\* the file name endings the walk can meet; the last one is not supported
Extensions == {".pdf", ".txt", ".md", ".markdown", ".csv"}

\* file_name.endswith(".pdf") / (".txt") / ((".md", ".markdown")): the loader
\* class chosen for a file name, "none" for an unsupported type
loader_class(name) ==
    IF name.ext = ".pdf" THEN "PyPDFLoader"
    ELSE IF name.ext = ".txt" THEN "TextLoader"
    ELSE IF name.ext \in {".md", ".markdown"} THEN "UnstructuredMarkdownLoader"
    ELSE "none"

\* the files a directory can hold.  ctor: the loader's constructor accepts
\* the file (PyPDFLoader and UnstructuredMarkdownLoader check the path and
\* their package when constructed, TextLoader only stores its arguments);
\* load: loader.load() returns rather than raises
Files ==
    {f \in [ext : Extensions, ctor : BOOLEAN, load : BOOLEAN] :
        /\ loader_class(f) = "none" => (f.ctor /\ f.load)
        /\ loader_class(f) = "TextLoader" => f.ctor}

\* the directories: up to MaxFiles files in walk order
Directories == UNION {[1..n -> Files] : n \in 0..MaxFiles}

\* loader.load() of the i-th file: one document per page of a PDF (two
\* pages here), one document for a text or markdown file
file_documents(files, i) ==
    IF loader_class(files[i]) = "PyPDFLoader"
    THEN <<[source |-> i, page |-> 1], [source |-> i, page |-> 2]>>
    ELSE <<[source |-> i, page |-> 1]>>

\* load_documents(directory), from the i-th file on, with documents loaded
\* so far.  ret: "list" (the list is returned) or "raise" (an exception
\* escapes: the loaders are constructed outside the try block)
RECURSIVE load_from(_, _, _)
load_from(files, i, documents) ==
    IF i > Len(files) THEN [ret |-> "list", documents |-> documents]
    ELSE IF loader_class(files[i]) = "none" THEN load_from(files, i + 1, documents)
    ELSE IF ~files[i].ctor THEN [ret |-> "raise", documents |-> documents]
    ELSE IF files[i].load
         THEN load_from(files, i + 1, documents \o file_documents(files, i))
         ELSE load_from(files, i + 1, documents)

load_documents(files) == load_from(files, 1, <<>>)

----------------------------------------------------------------------------
(* src/src/vector_db_manager.py *)

\* shutil.rmtree(persist_directory): every persisted record is gone
rmtree(coll) == <<>>

\* mutant: an add that skips the documents the collection already holds
add_documents_dedup(coll, documents, k) ==
    coll \o SelectSeq(Prefix(documents, k), LAMBDA d : \A i \in DOMAIN coll : coll[i] # d)

\* vector_store.add_documents(documents) that persisted k of the documents:
\* records are appended, with no uniqueness check; it raised iff k < Len(documents)
add_documents(coll, documents, k) == coll \o Prefix(documents, k)

\* Chroma.from_documents(documents, persist_directory, collection_name) that
\* persisted k of the documents: it opens (or creates) the collection at the
\* path and adds to it; it raised iff k < Len(documents)
from_documents(coll, documents, k) == coll \o Prefix(documents, k)

\* mutant: no store is returned when there is nothing to add
load_existing_refused(coll) == [coll |-> coll, ret |-> "none", msg |-> "cannot create"]

\* lines 71-73: no documents provided, the opened (or newly created, empty)
\* collection is returned as it is
load_existing(coll) == [coll |-> coll, ret |-> "store", msg |-> "loaded"]

\* the except branch of get_or_create_vector_store
fallback_create(coll, documents, o) ==
    IF documents # <<>>
    THEN LET c == from_documents(coll, documents, o.fallback)
         IN  IF o.fallback = Len(documents)
             THEN [coll |-> c, ret |-> "store", msg |-> "created after error"]
             ELSE [coll |-> c, ret |-> "raise", msg |-> "raised"]
    ELSE [coll |-> coll, ret |-> "none", msg |-> "cannot create"]

\* get_or_create_vector_store(documents, embedding_model, force_recreate=...)
\* on a persist directory holding coll.  o: open says whether Chroma(...)
\* opened the collection, write how many documents the first write persisted,
\* fallback how many the fallback write persisted.
\* ret: "store" (a store is returned), "none" (None), "raise" (an exception escapes)
get_or_create_vector_store(coll, documents, force_recreate, o) ==
    LET c0 == IF force_recreate THEN rmtree(coll) ELSE coll
    IN  IF ~o.open
        THEN fallback_create(c0, documents, o)
        ELSE IF ~force_recreate /\ documents # <<>>
        THEN LET c1 == add_documents(c0, documents, o.write)
             IN  IF o.write = Len(documents)
                 THEN [coll |-> c1, ret |-> "store", msg |-> "added"]
                 ELSE fallback_create(c1, documents, o)
        ELSE IF documents # <<>>
        THEN LET c1 == from_documents(c0, documents, o.write)
             IN  IF o.write = Len(documents)
                 THEN [coll |-> c1, ret |-> "store", msg |-> "created"]
                 ELSE fallback_create(c1, documents, o)
        ELSE load_existing(c0)

\* get_vector_store_retriever(embedding_model, search_kwargs): opening the
\* store again may raise, which is caught and turned into None
get_vector_store_retriever(o) == IF o.retriever THEN "retriever" ELSE "none"

\* the library outcomes of one get_or_create_vector_store call
StoreOutcomes(documents) ==
    [open : BOOLEAN, write : 0..Len(documents), fallback : 0..Len(documents)]

\* the record kept of a get_or_create_vector_store invocation
Invocation(coll, documents, force_recreate, r) ==
    [made |-> TRUE, before |-> coll, documents |-> documents,
     force_recreate |-> force_recreate, ret |-> r.ret, msg |-> r.msg]

----------------------------------------------------------------------------
(* src/src/rag_chain.py *)

\* the similarity of a record to a question, as the embedding model and the
\* vector index rank it
Sim(q, c) ==
    IF (q = "q1" /\ c = "c1") \/ (q = "q2" /\ c = "c2") THEN 2
    ELSE IF c = OldRecord THEN 1 ELSE 0

\* c placed after the records at least as similar as it
InsertBySim(sorted, c, q) ==
    LET ahead == {i \in 1..Len(sorted) : Sim(q, sorted[i]) >= Sim(q, c)}
        n == Cardinality(ahead)
    IN  Prefix(sorted, n) \o <<c>> \o SubSeq(sorted, n + 1, Len(sorted))

RECURSIVE RankBySim(_, _)
RankBySim(coll, q) ==
    IF coll = <<>> THEN <<>>
    ELSE InsertBySim(RankBySim(Prefix(coll, Len(coll) - 1), q), coll[Len(coll)], q)

Min(a, b) == IF a < b THEN a ELSE b

\* retriever.invoke(q) with search_kwargs {"k": TOP_K_RETRIEVAL}
retrieve(coll, q) ==
    LET ranked == RankBySim(coll, q)
    IN  Prefix(ranked, Min(TOP_K_RETRIEVAL, Len(ranked)))

\* format_docs: "\n\n".join(doc.page_content for doc in docs)
RECURSIVE format_docs(_)
format_docs(docs) ==
    IF docs = <<>> THEN <<>>
    ELSE IF Len(docs) = 1 THEN <<docs[1]>>
    ELSE <<docs[1], "\n\n">> \o format_docs(Tail(docs))

\* ChatPromptTemplate.from_template(RAG_PROMPT_TEMPLATE) filled in
rag_prompt(context, question) ==
    <<"Context:">> \o context \o <<"Question:", question>>

\* what the chain sends to the model endpoint for one input:
\* {"context": retriever | format_docs, "question": passthrough} | prompt
chain_prompt(coll, input) == rag_prompt(format_docs(retrieve(coll, input)), input)

\* the library outcomes of one initialize_rag_chain run; docs says whether
\* get_processed_documents() returned its chunks rather than raised
InitOutcomes(documents) ==
    [emb : BOOLEAN, docs : BOOLEAN, open : BOOLEAN, write : 0..Len(documents),
     fallback : 0..Len(documents), retriever : BOOLEAN, llm : BOOLEAN]

\* the steps of initialize_rag_chain, in the order of its code
SetupOrder == <<"embedding", "documents", "vector_store", "retriever", "llm">>

\* mutant: the provider object is returned although the model did not load
get_embedding_model_unguarded(o) == "embeddings"

\* src/src/embedding_model.py, get_embedding_model(): the except branch
\* turns a failed load into None
get_embedding_model(o) == IF o.emb THEN "embeddings" ELSE "none"

\* initialize_rag_chain() on a persist directory holding coll and a corpus
\* yielding documents.  ret: "chain", "none" (None) or "raise"
initialize_rag_chain(coll, documents, o) ==
    IF get_embedding_model(o) = "none"
    THEN [coll |-> coll, ret |-> "none", msg |-> "no embedding model",
          steps |-> Prefix(SetupOrder, 1)]
    ELSE IF ~o.docs
    THEN [coll |-> coll, ret |-> "raise", msg |-> "raised", steps |-> Prefix(SetupOrder, 2)]
    ELSE LET r == get_or_create_vector_store(coll, documents, FALSE, o)
         IN  IF r.ret = "raise"
             THEN [coll |-> r.coll, ret |-> "raise", msg |-> r.msg,
                   steps |-> Prefix(SetupOrder, 3)]
             ELSE IF r.ret = "none"
             THEN [coll |-> r.coll, ret |-> "none", msg |-> r.msg,
                   steps |-> Prefix(SetupOrder, 3)]
             ELSE IF get_vector_store_retriever(o) = "none"
             THEN [coll |-> r.coll, ret |-> "none", msg |-> r.msg,
                   steps |-> Prefix(SetupOrder, 4)]
             ELSE IF ~o.llm
             THEN [coll |-> r.coll, ret |-> "none", msg |-> r.msg, steps |-> SetupOrder]
             ELSE [coll |-> r.coll, ret |-> "chain", msg |-> r.msg, steps |-> SetupOrder]

----------------------------------------------------------------------------
(* src/src/chatbot_app.py *)

\* the text of n streamed fragments, accumulated by full_response += chunk
RECURSIVE Accumulate(_)
Accumulate(n) == IF n = 0 THEN <<>> ELSE Accumulate(n - 1) \o <<"frag">>

\* f"An error occurred: {e}. Please check the console and ensure Ollama is running."
ErrorMessage == <<"An error occurred">>

\* "Chatbot is not initialized. Please check the setup messages above."
NotInitialized == <<"Chatbot is not initialized">>

\* mutant: the chain is fed the question that opened the conversation
chain_input_first_question(history, prompt) ==
    IF history = <<>> THEN prompt ELSE history[1].content[1]

\* the argument of rag_chain.stream(...): the text typed into the chat input
chain_input(history, prompt) == prompt

\* how a rag_chain.stream call can go: it delivers the whole answer, or it
\* raises after any number of its fragments (the last one included)
StreamOutcomes ==
    {[n |-> MaxFrags, raised |-> FALSE]} \cup {[n |-> k, raised |-> TRUE] : k \in 0..MaxFrags}

\* mutant: the error text is appended to what was streamed so far
full_response_keeps_partial(n, raised) ==
    IF raised THEN Accumulate(n) \o ErrorMessage ELSE Accumulate(n)

\* full_response of one turn on a ready chain that streamed n fragments and
\* then raised, or not
full_response(n, raised) == IF raised THEN ErrorMessage ELSE Accumulate(n)

\* mutant: the chain is used without the `if rag_chain` test, so that a
\* missing chain surfaces as a caught error
answer_unchecked(chain, n, raised) ==
    IF chain = "ready" THEN full_response(n, raised) ELSE ErrorMessage

\* lines 51-66: the assistant's reply of one turn
answer(chain, n, raised) ==
    IF chain = "ready" THEN full_response(n, raised) ELSE NotInitialized

\* mutant: the except block appends the error message itself, and the
\* append that closes the handler records it a second time
chat_turn_error_appended_twice(history, prompt, reply) ==
    history \o <<[role |-> "user", content |-> <<prompt>>]>>
            \o (IF reply = ErrorMessage
                THEN <<[role |-> "assistant", content |-> reply]>>
                ELSE <<>>)
            \o <<[role |-> "assistant", content |-> reply]>>

\* the `if prompt := st.chat_input(...)` block: the history after the turn
chat_turn(history, prompt, reply) ==
    history \o <<[role |-> "user", content |-> <<prompt>>],
                 [role |-> "assistant", content |-> reply]>>

\* setup_rag_chain() under st.cache_resource: the body runs only when the
\* cache holds no entry; a return value (the chain, or None) is stored, an
\* exception stores nothing and ends the script run
setup_rag_chain ==
    IF rag_chain = "empty"
    THEN /\ log.init < MaxInits
         /\ \E o \in InitOutcomes(corpus) :
              LET r == initialize_rag_chain(collection, corpus, o)
              IN  /\ collection' = r.coll
                  /\ rag_chain' = (CASE r.ret = "chain" -> "ready"
                                     [] r.ret = "none" -> "failed"
                                     [] OTHER -> "empty")
                  /\ runs' = runs + 1
                  /\ steps' = r.steps
                  /\ log' = [init |-> log.init + 1,
                             stored |-> IF r.msg \in {"added", "loaded"}
                                        THEN log.stored + 1 ELSE log.stored]
    ELSE UNCHANGED <<collection, rag_chain, runs, log, steps>>

\* the script run ended at line 25 with the exception of setup_rag_chain
ScriptAborted == rag_chain' = "empty"

\* lines 31-33: the history is created on the session's first completed run
SessionInit(m) == IF m = Absent THEN <<>> ELSE m

\* a script run with no widget event (page load, refresh)
Rerun ==
    /\ setup_rag_chain
    /\ messages' = IF ScriptAborted THEN messages ELSE SessionInit(messages)
    /\ call' = NoCall
    /\ UNCHANGED <<corpus, requests, vs, loadVars>>

\* the request the chain sends for the typed question
Request(history, q, coll) ==
    [question |-> q, prompt |-> chain_prompt(coll, chain_input(history, q))]

\* a script run in which the chat input returns question q.  The input is on
\* the page only after a run that got past line 25.
Submit(q) ==
    /\ messages # Absent
    /\ Len(messages) < 2 * MaxTurns
    /\ setup_rag_chain
    /\ IF ScriptAborted
       THEN /\ messages' = messages
            /\ call' = NoCall
            /\ requests' = requests
       ELSE \E g \in StreamOutcomes :
              LET r == Request(messages, q, collection')
              IN  /\ messages' = chat_turn(messages, q, answer(rag_chain', g.n, g.raised))
                  /\ call' = IF rag_chain' = "ready"
                             THEN [made |-> TRUE, question |-> q, prompt |-> r.prompt,
                                   streamed |-> g.n, raised |-> g.raised]
                             ELSE NoCall
                  /\ requests' = IF rag_chain' = "ready"
                                 THEN requests \cup {r} ELSE requests
    /\ UNCHANGED <<corpus, vs, loadVars>>

\* the history after the "Clear Chat" button: st.session_state.messages = []
clear_chat(history) == <<>>

\* mutant: the button also drops the cached chain
ClearChatAndCache ==
    /\ messages # Absent
    /\ messages' = <<>>
    /\ rag_chain' = "empty"
    /\ call' = NoCall
    /\ UNCHANGED <<corpus, collection, requests, runs, log, vs, loadVars, steps>>

\* a script run in which the "Clear Chat" button returns True;
\* st.experimental_rerun() then starts a run with no event, which finds the
\* cache filled and the history present
ClearChat ==
    /\ messages # Absent
    /\ setup_rag_chain
    /\ messages' = IF ScriptAborted THEN messages ELSE clear_chat(messages)
    /\ call' = NoCall
    /\ UNCHANGED <<corpus, requests, vs, loadVars>>

\* the server process is stopped and started again: the resource cache and
\* the session are gone, the persist directory and the console stay
Restart ==
    /\ rag_chain' = "empty"
    /\ messages' = Absent
    /\ call' = NoCall
    /\ requests' = {}
    /\ runs' = 0
    /\ steps' = <<>>
    /\ UNCHANGED <<corpus, collection, log, vs, loadVars>>

Init ==
    /\ corpus \in Corpora
    /\ collection \in InitialStores
    /\ rag_chain = "empty"
    /\ messages = Absent
    /\ call = NoCall
    /\ requests = {}
    /\ runs = 0
    /\ log = [init |-> 0, stored |-> 0]
    /\ vs = NoCall
    /\ directory = <<>>
    /\ loaded = NoCall
    /\ steps = <<>>

Next ==
    \/ Rerun
    \/ \E q \in Questions : Submit(q)
    \/ ClearChat
    \/ Restart

Spec == Init /\ [][Next]_vars

----------------------------------------------------------------------------
(* get_or_create_vector_store called directly, as the __main__ block of
   vector_db_manager.py does, with any document list and either value of
   force_recreate *)

DirectCall ==
    /\ Len(collection) <= MaxRecords
    /\ \E documents \in DocumentLists, force_recreate \in BOOLEAN :
         \E o \in StoreOutcomes(documents) :
            LET r == get_or_create_vector_store(collection, documents, force_recreate, o)
            IN  /\ collection' = r.coll
                /\ vs' = Invocation(collection, documents, force_recreate, r)
    /\ UNCHANGED <<corpus, rag_chain, messages, call, requests, runs, log, loadVars, steps>>

StoreNext == DirectCall

StoreSpec == Init /\ [][StoreNext]_vars

----------------------------------------------------------------------------
(* load_documents called on any directory, as get_processed_documents and
   the __main__ block of data_processor.py do *)

LoadInit ==
    /\ directory \in Directories
    /\ loaded = NoCall
    /\ corpus = <<>>
    /\ collection = <<>>
    /\ rag_chain = "empty"
    /\ messages = Absent
    /\ call = NoCall
    /\ requests = {}
    /\ runs = 0
    /\ log = [init |-> 0, stored |-> 0]
    /\ vs = NoCall
    /\ steps = <<>>

LoadDocuments ==
    /\ ~loaded.made
    /\ LET r == load_documents(directory)
       IN  loaded' = [made |-> TRUE, ret |-> r.ret, documents |-> r.documents]
    /\ UNCHANGED <<corpus, collection, rag_chain, messages, call, requests, runs,
                   log, vs, directory, steps>>

LoadNext == LoadDocuments

LoadSpec == LoadInit /\ [][LoadNext]_vars

----------------------------------------------------------------------------
(* Helpers of the claims *)

Range(f) == {f[i] : i \in DOMAIN f}

\* the history of a session that has one
History == IF messages = Absent THEN <<>> ELSE messages

\* the contents of the assistant messages of the history
AssistantReplies == {m.content : m \in {x \in Range(History) : x.role = "assistant"}}

\* the records of the collection that come from the corpus chunks
CorpusRecords(coll) == SelectSeq(coll, LAMBDA c : c # OldRecord)

\* s repeated m times
RECURSIVE Repeat(_, _)
Repeat(s, m) == IF m = 0 THEN <<>> ELSE Repeat(s, m - 1) \o s

\* the context part of a prompt built by rag_prompt
ContextOf(prompt) == SubSeq(prompt, 2, Len(prompt) - 2)

----------------------------------------------------------------------------
(* C1 *)

\* C1: initialize_rag_chain runs at most once per process, and once it has
\* returned no pipeline every question gets the fixed 'not initialized' reply
\* and the chain is never called.
C1_InitOncePerProcess ==
    /\ runs <= 1
    /\ rag_chain = "failed" =>
         /\ AssistantReplies \subseteq {NotInitialized}
         /\ requests = {}

----------------------------------------------------------------------------
(* C2 *)

\* C2: every run of initialize_rag_chain that reaches the vector store ends
\* by returning a pipeline or null, which the cache then holds: no exception
\* escapes, whatever the vector-store steps did.
C2_ReturnsChainOrNull ==
    (runs > 0 /\ Len(steps) >= 3) => rag_chain \in {"ready", "failed"}

----------------------------------------------------------------------------
(* C3 *)

C3_CleanRunsAddN ==
    log.stored = log.init => CorpusRecords(collection) = Repeat(corpus, log.init)

\* no step removes or reorders a persisted record
C3_RecordsKept ==
    /\ Len(collection') >= Len(collection)
    /\ Prefix(collection', Len(collection)) = collection

----------------------------------------------------------------------------
(* C4 *)

\* C4: a successful get_or_create_vector_store call with force_recreate=True
\* leaves exactly one record per supplied chunk, whatever was persisted before.
C4_ForceRecreateExact ==
    (vs.made /\ vs.force_recreate /\ vs.ret = "store") => collection = vs.documents

----------------------------------------------------------------------------
(* C5 *)

\* C5: when the open or the add failed and the fallback creation succeeded,
\* the collection holds exactly the supplied chunks, once each.
C5_FallbackFromScratch ==
    (vs.made /\ vs.msg = "created after error") => collection = vs.documents

----------------------------------------------------------------------------
(* C6 *)

\* C6 as stated: with an empty corpus a question is answered with an empty
\* context string.
C6_EmptyContext ==
    (corpus = <<>> /\ call.made) => ContextOf(call.prompt) = <<>>

\* with an empty corpus, a run in which the embedding provider, both opens of
\* the store and the LLM client succeed returns a chain and leaves the
\* collection as it was
C6_EmptyCorpusInitializes ==
    \A o \in InitOutcomes(corpus) :
       (o.emb /\ o.docs /\ o.open /\ o.retriever /\ o.llm) =>
          LET r == initialize_rag_chain(collection, corpus, o)
          IN  r.ret = "chain" /\ r.coll = collection

\* the context of the question answered comes from the records the
\* collection already holds: it is empty exactly when there are none
C6_ContextFromStore ==
    call.made =>
       /\ (ContextOf(call.prompt) = <<>>) <=> (collection = <<>>)
       /\ Range(ContextOf(call.prompt)) \subseteq Range(collection) \cup {"\n\n"}

\* C6 (amended): an empty corpus is not an error: initialize_rag_chain still
\* returns a ready pipeline when the other steps succeed, no run changes the
\* persisted collection, and a question is answered with the context
\* retrieved from whatever the collection already holds, which is the empty
\* string exactly when the collection is empty.
C6_EmptyCorpus ==
    /\ [](corpus = <<>> => (C6_EmptyCorpusInitializes /\ C6_ContextFromStore))
    /\ [][corpus = <<>> => collection' = collection]_vars

\* an empty corpus, a ready chain, and a question answered from an old record
C6_Witness ==
    /\ corpus = <<>> /\ rag_chain = "ready"
    /\ collection = <<OldRecord>>
    /\ call.made /\ ~call.raised
    /\ ContextOf(call.prompt) = <<OldRecord>>

----------------------------------------------------------------------------
(* C7 *)

\* the turn whose chain call raised is recorded with the error message as
\* the assistant's reply, and the chain is still ready
C7_ErrorRecorded ==
    (call.made /\ call.raised) =>
       /\ rag_chain = "ready"
       /\ messages[Len(messages) - 1] = [role |-> "user", content |-> <<call.question>>]
       /\ messages[Len(messages)] = [role |-> "assistant", content |-> ErrorMessage]

\* a ready chain stays ready while the process lives, and every question
\* submitted to it is run through the chain
C7_LaterQuestionsRun ==
    rag_chain = "ready" =>
       /\ messages' # Absent => rag_chain' = "ready"
       /\ Len(History') = Len(History) + 2 =>
            /\ call'.made
            /\ call'.prompt = chain_prompt(collection, call'.question)
            /\ messages'[Len(messages')].content =
                 (IF call'.raised THEN ErrorMessage ELSE Accumulate(call'.streamed))

\* C7: a generation failure is confined to its turn: the reply recorded is
\* the error message, whether or not fragments were streamed, the pipeline
\* stays ready and every later question is run through it.
C7_FailureConfined == []C7_ErrorRecorded /\ [][C7_LaterQuestionsRun]_vars

\* an error turn followed, in the same history, by a turn answered normally
C7_Witness ==
    /\ Len(History) = 4
    /\ messages[2].content = ErrorMessage
    /\ call.made /\ ~call.raised /\ call.streamed > 0
    /\ messages[4].content = Accumulate(call.streamed)

----------------------------------------------------------------------------
(* C8 *)

\* C8 as stated: in the failed state no message is ever appended.
C8_InputDisabled == rag_chain = "failed" => History = <<>>

\* C8 (amended): when setup has failed the question input stays enabled:
\* each question submitted appends the user message and the fixed 'not
\* initialized' assistant reply to the history, and the chain is never called.
C8_FailedRepliesFixed ==
    rag_chain = "failed" =>
       /\ \A i \in DOMAIN History :
            IF i % 2 = 1
            THEN History[i].role = "user" /\ History[i].content \in {<<q>> : q \in Questions}
            ELSE History[i] = [role |-> "assistant", content |-> NotInitialized]
       /\ ~call.made
       /\ requests = {}

\* a question submitted and answered in the failed state
C8_Witness ==
    /\ rag_chain = "failed"
    /\ Len(History) = 2
    /\ messages[2].content = NotInitialized

----------------------------------------------------------------------------
(* C9 *)

\* C9: the prompt sent for a question depends on the question and the store
\* only: two submissions of the same question, made with different message
\* histories, send the same prompt, the one built from the question and the
\* records retrieved for it.
C9_Stateless ==
    /\ \A r1, r2 \in requests : r1.question = r2.question => r1.prompt = r2.prompt
    /\ \A r \in requests :
         r.prompt = rag_prompt(format_docs(retrieve(collection, r.question)), r.question)

\* the same question submitted twice over a non-empty store, first with an
\* empty history and then with a history of one turn: one prompt was sent
C9_Witness ==
    /\ rag_chain = "ready" /\ collection # <<>>
    /\ Len(History) = 4
    /\ messages[1].content = messages[3].content
    /\ Cardinality(requests) = 1
    /\ call.made /\ call.question = messages[3].content[1]

----------------------------------------------------------------------------
(* C10 *)

\* a step that empties a non-empty history
C10_ClearStep == messages # Absent /\ messages # <<>> /\ messages' = <<>>

\* C10: 'Clear Chat' empties the message history and changes nothing else:
\* the persisted collection and the memoized pipeline state are as before.
C10_ClearChatFrame ==
    /\ [][ClearChat => messages' = <<>>]_vars
    /\ [][C10_ClearStep =>
            /\ collection' = collection
            /\ rag_chain' = rag_chain
            /\ UNCHANGED <<corpus, requests, runs, log>>]_vars

\* a cleared history in a process that has answered a question from a
\* non-empty store
C10_Witness ==
    /\ messages = <<>>
    /\ requests # {}
    /\ rag_chain = "ready"
    /\ collection # <<>>

----------------------------------------------------------------------------
(* C11 *)

\* the files of the directory that have a supported extension and whose
\* loader is constructed and loads
Loadable(files) ==
    {i \in DOMAIN files :
        loader_class(files[i]) # "none" /\ files[i].ctor /\ files[i].load}

\* the documents of the loadable files among the first n, in walk order
RECURSIVE DocumentsUpTo(_, _)
DocumentsUpTo(files, n) ==
    IF n = 0 THEN <<>>
    ELSE DocumentsUpTo(files, n - 1) \o
         (IF n \in Loadable(files) THEN file_documents(files, n) ELSE <<>>)

\* C11: load_documents skips without aborting: for any directory it returns
\* the in-order concatenation of the documents of exactly the files that
\* have a supported extension and load; any other file contributes nothing
\* and does not stop the remaining files from being loaded.
C11_SkipsWithoutAborting ==
    loaded.made =>
       /\ loaded.ret = "list"
       /\ loaded.documents = DocumentsUpTo(directory, Len(directory))

----------------------------------------------------------------------------
(* C12 *)

\* the steps a run entered are an initial part of the fixed order, and a
\* chain exists only when all five were entered
C12_StepsInOrder ==
    runs > 0 =>
       /\ steps # <<>>
       /\ steps = Prefix(SetupOrder, Len(steps))
       /\ rag_chain = "ready" => steps = SetupOrder

\* whenever the embedding provider fails to load, initialize_rag_chain
\* returns null after its first step and leaves the collection alone
C12_NoEmbeddingNoStore ==
    \A o \in InitOutcomes(corpus) :
       ~o.emb =>
          LET r == initialize_rag_chain(collection, corpus, o)
          IN  r.ret = "none" /\ r.steps = <<"embedding">> /\ r.coll = collection

\* a run that stopped at the embedding step changed no persisted record and
\* left the pipeline failed
C12_EmbeddingAbortStep ==
    (log'.init # log.init /\ steps' = <<"embedding">>) =>
       (collection' = collection /\ rag_chain' = "failed")

\* C12: the set-up steps run in the fixed order embedding provider,
\* load+chunk, vector store, retriever, LLM client, and a failing step aborts
\* before any later step: if the embedding provider fails to load,
\* initialize_rag_chain returns null without loading documents and without
\* opening or modifying the persisted collection.
C12_FixedOrderAbort ==
    /\ [](C12_StepsInOrder /\ C12_NoEmbeddingNoStore)
    /\ [][C12_EmbeddingAbortStep]_vars

\* a run over a non-empty corpus and a non-empty store that stopped at the
\* embedding step
C12_Witness ==
    /\ runs > 0 /\ steps = <<"embedding">>
    /\ rag_chain = "failed"
    /\ corpus # <<>> /\ collection = <<OldRecord>>

----------------------------------------------------------------------------
(* C13 *)

\* the history has even length and alternates user, assistant
C13_Alternates ==
    /\ Len(History) % 2 = 0
    /\ \A i \in DOMAIN History :
         History[i].role = (IF i % 2 = 1 THEN "user" ELSE "assistant")

\* a step that lengthens the history appends one user message, holding a
\* question, followed by one assistant message
C13_TurnAppendsPair ==
    Len(History') > Len(History) =>
       /\ Len(History') = Len(History) + 2
       /\ SubSeq(History', 1, Len(History)) = History
       /\ History'[Len(History) + 1].role = "user"
       /\ History'[Len(History) + 1].content \in {<<q>> : q \in Questions}
       /\ History'[Len(History) + 2].role = "assistant"

\* C13: after any sequence of question submissions and 'Clear Chat' actions
\* the history has even length and alternates user, assistant, starting with
\* user; every submitted question appends exactly one user message followed
\* by exactly one assistant message, in each branch of the handler.
C13_HistoryAlternates == []C13_Alternates /\ [][C13_TurnAppendsPair]_vars

\* a history of two turns on a ready chain: one answered, then one that
\* ended in a generation error
C13_Witness ==
    /\ Len(History) = 4
    /\ messages[2].content = Accumulate(MaxFrags)
    /\ messages[4].content = ErrorMessage
    /\ call.made /\ call.raised

====
